---- MODULE Spec2Model ----
(***************************************************************************)
(* Model of the portfolio / documentation site: the Next.js build          *)
(* configuration with its webpack hook, the Image wrapper component, the   *)
(* shared layout configuration, and the MDX content documents with their   *)
(* front-matter.                                                           *)
(***************************************************************************)
EXTENDS Integers, Sequences, FiniteSets, TLC

\* ------------------------------------------------------------------------
\* Bounds of the model
\* ------------------------------------------------------------------------
MaxRules == 1      \* longest rule list the framework hands to the hook
MaxCalls == 3      \* webpack hook invocations explored per build
MaxDim   == 1      \* small caller-supplied image dimensions 0..MaxDim
MaxStem  == 2      \* longest file-name stem in front of the tested tail

\* An optional JavaScript value: None is `undefined`, Some(x) is x.
None == <<>>
Some(x) == <<x>>
IsSome(o) == Len(o) = 1
Get(o) == o[1]

\* ------------------------------------------------------------------------
\* Build configuration
\* ------------------------------------------------------------------------
AssetFilename == "static/media/[name].[hash][ext]"

\* The rule object literal pushed by the webpack hook.
AssetRule ==
    [ test      |-> "/\\.(png|jpe?g|gif|svg)$/i",
      type      |-> "asset/resource",
      generator |-> [filename |-> AssetFilename] ]

config_NoSandbox ==
    [ reactStrictMode |-> TRUE,
      images |->
        [ remotePatterns         |-> <<>>,
          unoptimized            |-> TRUE,
          dangerouslyAllowSVG    |-> TRUE,
          contentDispositionType |-> "attachment",
          contentSecurityPolicy  |-> "default-src 'self'; script-src 'none';" ],
      webpack |-> "config.webpack" ]

config_Optimized ==
    [ reactStrictMode |-> TRUE,
      images |->
        [ remotePatterns         |-> <<>>,
          unoptimized            |-> FALSE,
          dangerouslyAllowSVG    |-> TRUE,
          contentDispositionType |-> "attachment",
          contentSecurityPolicy  |->
              "default-src 'self'; script-src 'none'; sandbox;" ],
      webpack |-> "config.webpack" ]

\* const config = { reactStrictMode, images, webpack }
config ==
    [ reactStrictMode |-> TRUE,
      images |->
        [ remotePatterns         |-> <<>>,
          unoptimized            |-> TRUE,
          dangerouslyAllowSVG    |-> TRUE,
          contentDispositionType |-> "attachment",
          contentSecurityPolicy  |->
              "default-src 'self'; script-src 'none'; sandbox;" ],
      webpack |-> "config.webpack" ]

\* createMDX({ options }) : the plugin options given to the MDX wrapper.
mdxOptions ==
    [ remarkPlugins        |-> <<>>,
      rehypePlugins        |-> <<>>,
      providerImportSource |-> "fumadocs-ui/mdx" ]

\* withMDX(config): the MDX plugin is enabled on top of the given
\* configuration, whose own fields are handed on as they are.
withMDX(c) ==
    [ reactStrictMode |-> c.reactStrictMode,
      images          |-> c.images,
      webpack         |-> c.webpack,
      mdx             |-> mdxOptions ]

\* Rules the framework may already have installed before the hook runs.
CssRule ==
    [ test      |-> "/\\.css$/",
      type      |-> "asset/source",
      generator |-> [filename |-> "static/css/[name][ext]"] ]

FrameworkRules == {CssRule, AssetRule}

RECURSIVE SeqsUpTo(_, _)
SeqsUpTo(S, n) ==
    IF n = 0 THEN {<<>>}
    ELSE LET shorter == SeqsUpTo(S, n - 1)
         IN  shorter \cup {Append(s, x) : s \in shorter, x \in S}

\* The `module` field of a webpack configuration: undefined, or an object
\* whose `rules` is undefined or an array of rules.
Modules ==
    {None} \cup {Some([rules |-> None, strictExportPresence |-> TRUE])}
           \cup {Some([rules |-> Some(rs), strictExportPresence |-> TRUE]) :
                     rs \in SeqsUpTo(FrameworkRules, MaxRules)}

\* The framework compiles twice (client and server); each compilation has
\* its own webpack configuration object, addressed by reference.
Refs == {1, 2}
CompilerName(r) == IF r = 1 THEN "client" ELSE "server"

WebpackConfig(r, m) == [name |-> CompilerName(r), mode |-> "production", module |-> m]

HasRules(cfg) == IsSome(cfg.module) /\ IsSome(Get(cfg.module).rules)
RulesOf(cfg) == Get(Get(cfg.module).rules)

Push_Unshift(rs, rule) == <<rule>> \o rs

\* Array.prototype.push of one element.
Push(rs, rule) == Append(rs, rule)

\* config.webpack applied to the object h[r]: the heap after the call and
\* the completion (`return config`, or the TypeError thrown when
\* config.module or config.module.rules is undefined).
WebpackHeap_Idempotent(h, r) ==
    IF HasRules(h[r]) /\ \A i \in 1..Len(RulesOf(h[r])) : RulesOf(h[r])[i] # AssetRule
    THEN [h EXCEPT ![r].module[1].rules[1] = Push(@, AssetRule)]
    ELSE h

WebpackHeap_NewModule(h, r) ==
    IF HasRules(h[r])
    THEN [h EXCEPT ![r].module =
              Some([rules |-> Some(Push(RulesOf(h[r]), AssetRule)),
                    strictExportPresence |-> FALSE])]
    ELSE h

WebpackHeap(h, r) ==
    IF HasRules(h[r])
    THEN [h EXCEPT ![r].module[1].rules[1] = Push(@, AssetRule)]
    ELSE h

WebpackCompletion_OptionalChaining(h, r) == [kind |-> "return", ref |-> r]

WebpackCompletion(h, r) ==
    IF HasRules(h[r])
    THEN [kind |-> "return", ref |-> r]
    ELSE [kind |-> "throw", ref |-> 0]

\* ------------------------------------------------------------------------
\* Image wrapper component
\* ------------------------------------------------------------------------
DefaultWidth == 800
DefaultHeight == 600

OrDefault_Falsy(o, d) == IF IsSome(o) /\ Get(o) # 0 THEN Get(o) ELSE d

\* A destructuring default applies exactly when the property is undefined.
OrDefault(o, d) == IF IsSome(o) THEN Get(o) ELSE d

Image_CapFromWidth(p) ==
    [ type  |-> "div",
      style |-> [ width    |-> "100%",
                  maxWidth |-> IF OrDefault(p.width, 800) = 1000 THEN "1000px" ELSE "800px" ],
      child |->
        [ type     |-> "NextImage",
          src      |-> p.src,
          alt      |-> p.alt,
          width    |-> OrDefault(p.width, 800),
          height   |-> OrDefault(p.height, 600),
          style    |-> [width |-> "100%", height |-> "auto"],
          priority |-> TRUE ] ]

Image_CoupledDefaults(p) ==
    LET bothOmitted == ~IsSome(p.width) /\ ~IsSome(p.height)
    IN  [ type  |-> "div",
          style |-> [width |-> "100%", maxWidth |-> "800px"],
          child |->
            [ type     |-> "NextImage",
              src      |-> p.src,
              alt      |-> p.alt,
              width    |-> IF bothOmitted THEN 800 ELSE OrDefault(p.width, 600),
              height   |-> IF bothOmitted THEN 600 ELSE OrDefault(p.height, 800),
              style    |-> [width |-> "100%", height |-> "auto"],
              priority |-> TRUE ] ]

\* export function Image({ src, alt, width = 800, height = 600 })
Image(p) ==
    [ type  |-> "div",
      style |-> [width |-> "100%", maxWidth |-> "800px"],
      child |->
        [ type     |-> "NextImage",
          src      |-> p.src,
          alt      |-> p.alt,
          width    |-> OrDefault(p.width, DefaultWidth),
          height   |-> OrDefault(p.height, DefaultHeight),
          style    |-> [width |-> "100%", height |-> "auto"],
          priority |-> TRUE ] ]

\* The pixel lengths that occur in the style objects.
PxValue(len) == CASE len = "800px" -> 800 [] len = "1000px" -> 1000

Min(a, b) == IF a <= b THEN a ELSE b

\* Width at which the image of a rendered wrapper is laid out in a viewport:
\* the container takes the available width up to its maxWidth, and the
\* image, styled width 100%, takes the container's width.
DisplayedWidth(el, viewport) ==
    LET container == IF el.style.width = "100%"
                     THEN Min(viewport, PxValue(el.style.maxWidth))
                     ELSE PxValue(el.style.maxWidth)
    IN  IF el.child.style.width = "100%" THEN container ELSE el.child.width

\* ------------------------------------------------------------------------
\* Shared layout configuration
\* ------------------------------------------------------------------------
LogoSrc == "/docs/images/common/john-paul.jpg"
SiteTitle == "John Paul's Portfolio"

baseOptions_WithLinks ==
    [ nav |->
        [ title |->
            << [ type      |-> "Image",
                 src       |-> "/docs/images/common/john-paul.jpg",
                 alt       |-> "Logo",
                 width     |-> 32,
                 height    |-> 32,
                 className |-> "rounded-full" ],
               [ type |-> "text", value |-> "John Paul's Portfolio" ] >> ],
      links |-> << [text |-> "Documentation", url |-> "/docs", active |-> "nested-url"] >> ]

\* export const baseOptions: BaseLayoutProps = { nav: { title: <>...</> } }
baseOptions ==
    [ nav |->
        [ title |->
            << [ type      |-> "Image",
                 src       |-> LogoSrc,
                 alt       |-> "Logo",
                 width     |-> 32,
                 height    |-> 32,
                 className |-> "rounded-full" ],
               [ type |-> "text", value |-> SiteTitle ] >> ] ]

\* The nav links the shared layout gets from a BaseLayoutProps object.
LinksOf(o) == IF "links" \in DOMAIN o THEN o.links ELSE <<>>

\* ------------------------------------------------------------------------
\* The static-asset rule's test: /\.(png|jpe?g|gif|svg)$/i
\* ------------------------------------------------------------------------
LowerCase == << "a", "b", "c", "d", "e", "f", "g", "h", "i", "j", "k", "l", "m",
                "n", "o", "p", "q", "r", "s", "t", "u", "v", "w", "x", "y", "z" >>
UpperCase == << "A", "B", "C", "D", "E", "F", "G", "H", "I", "J", "K", "L", "M",
                "N", "O", "P", "Q", "R", "S", "T", "U", "V", "W", "X", "Y", "Z" >>

ToUpper(ch) ==
    IF \E i \in 1..26 : LowerCase[i] = ch
    THEN UpperCase[CHOOSE i \in 1..26 : LowerCase[i] = ch]
    ELSE ch

ToLower(ch) ==
    IF \E i \in 1..26 : UpperCase[i] = ch
    THEN LowerCase[CHOOSE i \in 1..26 : UpperCase[i] = ch]
    ELSE ch

CharMatches_CaseSensitive(ch, patternCh) == ch = patternCh

\* Character comparison under the i flag: both sides are canonicalized
\* (upper-cased) first.
CharMatches(ch, patternCh) == ToUpper(ch) = ToUpper(patternCh)

Lit(ch) == [ch |-> ch, optional |-> FALSE]
Opt(ch) == [ch |-> ch, optional |-> TRUE]

\* The alternatives of the group (png|jpe?g|gif|svg).
Alternatives ==
    { << Lit("p"), Lit("n"), Lit("g") >>,
      << Lit("j"), Lit("p"), Opt("e"), Lit("g") >>,
      << Lit("g"), Lit("i"), Lit("f") >>,
      << Lit("s"), Lit("v"), Lit("g") >> }

\* Positions at which a match of the atoms, started at position i of s, can end.
RECURSIVE MatchAtoms(_, _, _)
MatchAtoms(atoms, s, i) ==
    IF atoms = <<>> THEN {i}
    ELSE LET a == Head(atoms)
             taken   == IF i <= Len(s) /\ CharMatches(s[i], a.ch)
                        THEN MatchAtoms(Tail(atoms), s, i + 1)
                        ELSE {}
             skipped == IF a.optional
                        THEN MatchAtoms(Tail(atoms), s, i)
                        ELSE {}
         IN  taken \cup skipped

\* `$` without the m flag: only the end of the input.
AtEnd(s, i) == i = Len(s) + 1

\* RegExp.prototype.test: a match may start at any position.
RuleTest(s) ==
    \E i \in 1..Len(s) :
        /\ s[i] = "."
        /\ \E alt \in Alternatives :
              \E e \in MatchAtoms(alt, s, i + 1) : AtEnd(s, e)

\* ------------------------------------------------------------------------
\* Content documents, one token per source line
\* ------------------------------------------------------------------------
Fence == <<"fence", "">>
Title(v) == <<"title", v>>
Description(v) == <<"description", v>>
Src(v) == <<"src", v>>
Body(n) == [i \in 1..n |-> <<"body", "">>]

\* content/docs/(projects)/finance-tracker.mdx: 861 lines
FinanceTrackerMdx ==
    <<Fence, Title("Finance Tracker"), Description("A finance tracker using Hono API, Next.js, and PostgreSQL"), Fence>>
    \o Body(14)
    \o <<Src("/docs/images/finance-tracker/finance-tracker-03.jpg")>>
    \o Body(179)
    \o <<Src("/docs/images/finance-tracker/finance-tracker-01.jpg")>>
    \o Body(6)
    \o <<Src("/docs/images/finance-tracker/finance-tracker-02.jpg")>>
    \o Body(5)
    \o <<Fence, Title("CRM Gig Canvas"), Description("Gig Canvas is a CRM for the Gig Economy"), Fence>>
    \o Body(31)
    \o <<Src("/docs/images/gig-canvas/main-image.jpg")>>
    \o Body(172)
    \o <<Src("/docs/images/gig-canvas/gigcanvas-sign-in.jpg")>>
    \o Body(8)
    \o <<Src("/docs/images/gig-canvas/gigcanvas-01.jpg")>>
    \o Body(8)
    \o <<Src("/docs/images/gig-canvas/gigcanvas-clients.jpg")>>
    \o Body(8)
    \o <<Src("/docs/images/gig-canvas/gigcanvas-single-client.jpg")>>
    \o Body(8)
    \o <<Src("/docs/images/gig-canvas/gigcanvas-contacts.jpg")>>
    \o Body(8)
    \o <<Src("/docs/images/gig-canvas/gigcanvas-dm.jpg")>>
    \o Body(5)
    \o <<Fence, Title("AI PDF Summariser SaaS"), Description("Summit is a SaaS web application that allows users to upload PDF documents and receive AI-generated, concise summaries."), Fence>>
    \o Body(14)
    \o <<Fence>>
    \o Body(2)
    \o <<Src("/docs/images/ai-pdf-summariser/tooling.jpg")>>
    \o Body(37)
    \o <<Fence>>
    \o Body(21)
    \o <<Fence>>
    \o Body(34)
    \o <<Fence>>
    \o Body(33)
    \o <<Fence>>
    \o Body(23)
    \o <<Fence>>
    \o Body(110)
    \o <<Fence>>
    \o Body(2)
    \o <<Src("/docs/images/ai-pdf-summariser/pdf-summariser.jpg")>>
    \o Body(37)
    \o <<Fence>>
    \o Body(22)
    \o <<Fence>>
    \o Body(10)
    \o <<Fence>>
    \o Body(29)
    \o <<Fence>>
PortfolioBlogMdx_EmptyDescription ==
    <<Fence, Title("Portfolio Blog"), Description(""), Fence>>
    \o Body(12)
    \o <<Src("/docs/images/mywebsite/my-website-collage.jpg")>>
    \o Body(210)

\* The Portfolio Blog document: 227 lines
PortfolioBlogMdx ==
    <<Fence, Title("Portfolio Blog"), Description("A portfolio website and blog for my portfolio"), Fence>>
    \o Body(12)
    \o <<Src("/docs/images/mywebsite/my-website-collage.jpg")>>
    \o Body(210)

ContentFiles ==
    << [path |-> "content/docs/(projects)/finance-tracker.mdx", lines |-> FinanceTrackerMdx],
       [path |-> "content/docs/portfolio-blog", lines |-> PortfolioBlogMdx] >>

\* ------------------------------------------------------------------------
\* State
\* ------------------------------------------------------------------------
VARIABLES
    exported,    \* the module's default export (None until the module is evaluated)
    heap,        \* the framework's webpack configuration objects, by reference
    initial,     \* history: the heap as the framework first built it
    callsOn,     \* history: number of hook calls made on each object
    pre,         \* history: the heap as it was when the hook was last entered
    arg,         \* history: the reference handed to the hook at that call
    ret,         \* completion of the last hook call
    calls,       \* number of hook calls so far
    props,       \* properties of the last Image call (None before the first)
    element,     \* element tree returned by the last Image call
    nav,         \* what the shared layout took from baseOptions
    fileName,    \* the file name offered to the static-asset rule
    tested,      \* whether the rule's test has been applied to it
    matched,     \* result of that test
    file,        \* index of the content file being read
    pos,         \* next line of that file
    mode,        \* "body", or "fm" inside a front-matter block
    cur,         \* the front-matter block being read
    docs,        \* front-matter blocks found so far
    imageRefs    \* image sources found so far

buildVars   == <<exported, heap, initial, callsOn, pre, arg, ret, calls>>
renderVars  == <<props, element, nav>>
ruleVars    == <<fileName, tested, matched>>
contentVars == <<file, pos, mode, cur, docs, imageRefs>>
vars == <<exported, heap, initial, callsOn, pre, arg, ret, calls, props, element, nav,
          fileName, tested, matched, file, pos, mode, cur, docs, imageRefs>>

NoBlock == [first |-> 0, keys |-> {}, title |-> "", description |-> ""]

InitBuild ==
    /\ exported = None
    /\ \E m \in Modules : heap = [r \in Refs |-> WebpackConfig(r, m)]
    /\ initial = heap
    /\ callsOn = [r \in Refs |-> 0]
    /\ pre = heap
    /\ arg = 0
    /\ ret = [kind |-> "none", ref |-> 0]
    /\ calls = 0

IdleBuild ==
    /\ exported = None
    /\ heap = [r \in Refs |-> WebpackConfig(r, None)]
    /\ initial = heap
    /\ callsOn = [r \in Refs |-> 0]
    /\ pre = heap
    /\ arg = 0
    /\ ret = [kind |-> "none", ref |-> 0]
    /\ calls = 0

IdleRender ==
    /\ props = None
    /\ element = None
    /\ nav = None

IdleRule ==
    /\ fileName = <<>>
    /\ tested = FALSE
    /\ matched = FALSE

InitContent ==
    /\ file = 1
    /\ pos = 1
    /\ mode = "body"
    /\ cur = NoBlock
    /\ docs = {}
    /\ imageRefs = {}

\* ------------------------------------------------------------------------
\* Build: evaluating the configuration module, the framework calling the hook
\* ------------------------------------------------------------------------
\* export default withMDX(config)
ExportConfig ==
    /\ exported = None
    /\ exported' = Some(withMDX(config))
    /\ UNCHANGED <<heap, initial, callsOn, pre, arg, ret, calls>>
    /\ UNCHANGED <<renderVars, ruleVars, contentVars>>

\* The framework calls the exported webpack hook on its configuration
\* object r.  A thrown error aborts the build.
CallWebpack(r) ==
    /\ IsSome(exported)
    /\ Get(exported).webpack = "config.webpack"
    /\ ret.kind # "throw"
    /\ calls < MaxCalls
    /\ pre' = heap
    /\ arg' = r
    /\ heap' = WebpackHeap(heap, r)
    /\ ret' = WebpackCompletion(heap, r)
    /\ calls' = calls + 1
    /\ callsOn' = [callsOn EXCEPT ![r] = @ + 1]
    /\ UNCHANGED <<exported, initial>>
    /\ UNCHANGED <<renderVars, ruleVars, contentVars>>

\* ------------------------------------------------------------------------
\* Rendering
\* ------------------------------------------------------------------------
OptionalDims == {None} \cup {Some(d) : d \in (0..MaxDim) \cup {1000}}

ImageInputs ==
    [ src    : {"/docs/images/finance-tracker/finance-tracker-03.jpg", ""},
      alt    : {"Finance Tracker", ""},
      width  : OptionalDims,
      height : OptionalDims ]

RenderImage(p) ==
    /\ props' = Some(p)
    /\ element' = Some(Image(p))
    /\ UNCHANGED nav
    /\ UNCHANGED <<buildVars, ruleVars, contentVars>>

\* The shared layout takes the nav title and the links from baseOptions.
RenderLayout ==
    /\ nav = None
    /\ nav' = Some([title |-> baseOptions.nav.title, links |-> LinksOf(baseOptions)])
    /\ UNCHANGED <<props, element>>
    /\ UNCHANGED <<buildVars, ruleVars, contentVars>>

Init == InitBuild /\ IdleRender /\ IdleRule /\ InitContent

Next ==
    \/ ExportConfig
    \/ \E r \in Refs : CallWebpack(r)
    \/ \E p \in ImageInputs : RenderImage(p)
    \/ RenderLayout

Spec == Init /\ [][Next]_vars

\* ------------------------------------------------------------------------
\* The static-asset rule applied to file names
\* ------------------------------------------------------------------------
Words ==
    { <<"p","n","g">>, <<"j","p","g">>, <<"j","p","e","g">>, <<"g","i","f">>,
      <<"s","v","g">>, <<"w","e","b","p">>, <<"j","g">>, <<"j","p","e">>,
      <<"p","n">> }

CaseVariants(w) ==
    { [i \in 1..Len(w) |-> IF i \in U THEN ToUpper(w[i]) ELSE w[i]] :
          U \in SUBSET (1..Len(w)) }

FileNames ==
    { stem \o dot \o word \o trail :
          stem  \in SeqsUpTo({"a", "."}, MaxStem),
          dot   \in {<<>>, <<".">>},
          word  \in UNION {CaseVariants(w) : w \in Words},
          trail \in {<<>>, <<"x">>, <<"\n">>, <<".", "t">>} }

\* rule.test.test(fileName)
TestFile ==
    /\ ~tested
    /\ tested' = TRUE
    /\ matched' = RuleTest(fileName)
    /\ UNCHANGED fileName
    /\ UNCHANGED <<buildVars, renderVars, contentVars>>

InitRule ==
    /\ IdleBuild /\ IdleRender /\ InitContent
    /\ fileName \in FileNames
    /\ tested = FALSE
    /\ matched = FALSE

NextRule == TestFile

SpecRule == InitRule /\ [][NextRule]_vars

\* ------------------------------------------------------------------------
\* Reading the content documents
\* ------------------------------------------------------------------------
Reading == file <= Len(ContentFiles)
CurrentLines == ContentFiles[file].lines

BlockOf(c, path, last) ==
    [ file        |-> path,
      first       |-> c.first,
      last        |-> last,
      keys        |-> c.keys,
      title       |-> c.title,
      description |-> c.description ]

\* A line outside a front-matter block.
ReadBodyLine ==
    /\ Reading /\ pos <= Len(CurrentLines) /\ mode = "body"
    /\ LET tok == CurrentLines[pos]
       IN  /\ mode' = IF tok = Fence THEN "fm" ELSE "body"
           /\ cur' = IF tok = Fence THEN [NoBlock EXCEPT !.first = pos] ELSE cur
           /\ imageRefs' = IF tok[1] = "src" THEN imageRefs \cup {tok[2]} ELSE imageRefs
    /\ pos' = pos + 1
    /\ UNCHANGED <<file, docs>>
    /\ UNCHANGED <<buildVars, renderVars, ruleVars>>

\* A `key: value` line after an opening fence.
ReadKeyLine ==
    /\ Reading /\ pos <= Len(CurrentLines) /\ mode = "fm"
    /\ CurrentLines[pos][1] \in {"title", "description"}
    /\ LET tok == CurrentLines[pos]
       IN  cur' = IF tok[1] = "title"
                  THEN [cur EXCEPT !.title = tok[2], !.keys = @ \cup {"title"}]
                  ELSE [cur EXCEPT !.description = tok[2], !.keys = @ \cup {"description"}]
    /\ pos' = pos + 1
    /\ UNCHANGED <<file, mode, docs, imageRefs>>
    /\ UNCHANGED <<buildVars, renderVars, ruleVars>>

\* The closing fence of a block that has keys.
CloseBlock ==
    /\ Reading /\ pos <= Len(CurrentLines) /\ mode = "fm"
    /\ CurrentLines[pos] = Fence /\ cur.keys # {}
    /\ docs' = docs \cup {BlockOf(cur, ContentFiles[file].path, pos)}
    /\ mode' = "body"
    /\ cur' = NoBlock
    /\ pos' = pos + 1
    /\ UNCHANGED <<file, imageRefs>>
    /\ UNCHANGED <<buildVars, renderVars, ruleVars>>

\* A fence followed by something else than a key was a thematic break.
AbandonBlock ==
    /\ Reading /\ pos <= Len(CurrentLines) /\ mode = "fm"
    /\ LET tok == CurrentLines[pos]
       IN  /\ tok[1] \notin {"title", "description"}
           /\ ~(tok = Fence /\ cur.keys # {})
           /\ mode' = IF tok = Fence THEN "fm" ELSE "body"
           /\ cur' = IF tok = Fence THEN [NoBlock EXCEPT !.first = pos] ELSE NoBlock
           /\ imageRefs' = IF tok[1] = "src" THEN imageRefs \cup {tok[2]} ELSE imageRefs
    /\ pos' = pos + 1
    /\ UNCHANGED <<file, docs>>
    /\ UNCHANGED <<buildVars, renderVars, ruleVars>>

NextFile ==
    /\ Reading /\ pos > Len(CurrentLines)
    /\ file' = file + 1
    /\ pos' = 1
    /\ mode' = "body"
    /\ cur' = NoBlock
    /\ UNCHANGED <<docs, imageRefs>>
    /\ UNCHANGED <<buildVars, renderVars, ruleVars>>

InitDocs == IdleBuild /\ IdleRender /\ IdleRule /\ InitContent

NextDocs ==
    \/ ReadBodyLine
    \/ ReadKeyLine
    \/ CloseBlock
    \/ AbandonBlock
    \/ NextFile

SpecContent == InitDocs /\ [][NextDocs]_vars

\* ------------------------------------------------------------------------
\* Properties
\* ------------------------------------------------------------------------
Finished(i) == file > i
BlocksIn(i) == {d \in docs : d.file = ContentFiles[i].path}

\* C1: every front-matter block of every content document (the blocks of
\* finance-tracker.mdx and the Portfolio Blog document) has a title and a
\* description, and both are non-empty strings.
C1_TitleAndDescription ==
    \A d \in docs :
        /\ {"title", "description"} \subseteq d.keys
        /\ d.title # ""
        /\ d.description # ""

\* All content has been read and its four front-matter blocks were found.
C1_Witness == ~Reading /\ Cardinality(docs) = 4

Child == Get(element).child
Given == Get(props)

\* C2 as stated: whatever the input, the width and height handed to the
\* framework's image element are the caller's own (an omitted dimension
\* stays omitted), as are src and alt.
C2_Original ==
    IsSome(element) =>
        /\ Child.src = Given.src
        /\ Child.alt = Given.alt
        /\ Given.width = Some(Child.width)
        /\ Given.height = Some(Child.height)

\* C2 (amended): src and alt are always forwarded exactly as supplied, and
\* width and height are forwarded exactly as supplied whenever the caller
\* supplies them (0 included).
C2_ForwardsSupplied ==
    IsSome(element) =>
        /\ Child.type = "NextImage"
        /\ Child.src = Given.src
        /\ Child.alt = Given.alt
        /\ (IsSome(Given.width) => Child.width = Get(Given.width))
        /\ (IsSome(Given.height) => Child.height = Get(Given.height))

\* An image rendered with width 0 supplied and height omitted.
C2_Witness ==
    /\ IsSome(element)
    /\ Given.width = Some(0)
    /\ Given.height = None
    /\ Given.src # ""

\* C3: in the exported configuration images.unoptimized and
\* images.dangerouslyAllowSVG are true, the content security policy and the
\* asset-output filename pattern are the literal values of the source, and
\* they stay so after the MDX wrapping and after every run of the hook.
C3_FlagsVerbatim ==
    IsSome(exported) =>
        /\ Get(exported).images.unoptimized = TRUE
        /\ Get(exported).images.dangerouslyAllowSVG = TRUE
        /\ Get(exported).images.contentSecurityPolicy =
               "default-src 'self'; script-src 'none'; sandbox;"
        /\ (ret.kind = "return" =>
               LET rs == RulesOf(heap[ret.ref])
               IN  rs[Len(rs)].generator.filename = "static/media/[name].[hash][ext]")

\* The configuration was exported and the hook has run to completion.
C3_Witness == IsSome(exported) /\ ret.kind = "return" /\ calls = MaxCalls

\* C4 as stated: the webpack hook leaves the configuration object it
\* receives from the framework unmodified.
C4_Original == ret.kind = "return" => heap[arg] = pre[arg]

\* The object o2 is o1 with nothing changed but module.rules, which has only grown.
OnlyRulesGrown(o1, o2) ==
    /\ HasRules(o1) /\ HasRules(o2)
    /\ [o2 EXCEPT !.module[1].rules[1] = RulesOf(o1)] = o1
    /\ Len(RulesOf(o2)) > Len(RulesOf(o1))
    /\ SubSeq(RulesOf(o2), 1, Len(RulesOf(o1))) = RulesOf(o1)

\* C4 (amended): the Image wrapper and the layout configuration modify no
\* object of another component, and the exported configuration is never
\* modified once set; the webpack hook does modify the framework's object,
\* but only the one it receives and only by growing its module.rules.
C4_OnlyRulesModified ==
    [][ /\ (props' # props \/ element' # element \/ nav' # nav) => heap' = heap
        /\ IsSome(exported) => exported' = exported
        /\ \A r \in Refs :
              heap'[r] # heap[r] => (arg' = r /\ OnlyRulesGrown(heap[r], heap'[r])) ]_vars

\* The hook returned and the object it was given differs from what it was.
C4_Witness == ret.kind = "return" /\ heap[arg] # pre[arg] /\ IsSome(element) /\ IsSome(nav)

\* C5 as stated: the hook completes normally on every configuration, also
\* when module or module.rules is absent.
C5_Original == ret.kind # "throw"

\* C5 (amended): rendering the Image wrapper always yields an element; the
\* webpack hook completes normally exactly when the configuration has a
\* module.rules array, and throws when module or module.rules is absent.
C5_ThrowsOnlyWithoutRules ==
    /\ IsSome(props) => (IsSome(element) /\ Get(element).type = "div")
    /\ ret.kind # "none" => (ret.kind = "throw" <=> ~HasRules(pre[arg]))
    /\ ret.kind # "none" => (ret.kind = "return" <=> HasRules(pre[arg]))

\* The hook threw on a configuration that has a module without rules, after
\* an image was rendered.
C5_Witness ==
    /\ ret.kind = "throw"
    /\ IsSome(pre[arg].module)
    /\ IsSome(element)

\* C7 as stated: in every content file the front-matter block occurs once
\* only and at the very start of the file.
C7_Original ==
    \A i \in 1..Len(ContentFiles) :
        /\ Cardinality(BlocksIn(i)) <= 1
        /\ \A d \in BlocksIn(i) : d.first = 1
        /\ Finished(i) => Cardinality(BlocksIn(i)) = 1

\* C8: the shared layout gets a nav title made of the logo image (its src,
\* 32 by 32) followed by the site title text, and no nav links: the links
\* field of baseOptions is absent.
C8_NavBranding ==
    IsSome(nav) =>
        /\ Len(Get(nav).title) = 2
        /\ Get(nav).title[1].type = "Image"
        /\ Get(nav).title[1].src = "/docs/images/common/john-paul.jpg"
        /\ Get(nav).title[1].width = 32
        /\ Get(nav).title[1].height = 32
        /\ Get(nav).title[2] = [type |-> "text", value |-> "John Paul's Portfolio"]
        /\ Get(nav).links = <<>>
        /\ DOMAIN baseOptions = {"nav"}

\* The shared layout has consumed baseOptions.
C8_Witness == IsSome(nav) /\ Len(Get(nav).title) > 0

\* C9: when the hook returns, it returns the object it was given; that
\* object's rule list is the former list, in order and unchanged, followed
\* by one new rule of type asset/resource with the static/media filename;
\* all its other fields, and all other configuration objects, are as before.
C9_AppendsOneRule ==
    ret.kind = "return" =>
        LET old == RulesOf(pre[arg])
            new == RulesOf(heap[arg])
        IN  /\ ret.ref = arg
            /\ Len(new) = Len(old) + 1
            /\ \A i \in 1..Len(old) : new[i] = old[i]
            /\ new[Len(new)].type = "asset/resource"
            /\ new[Len(new)].generator = [filename |-> "static/media/[name].[hash][ext]"]
            /\ heap[arg].name = pre[arg].name
            /\ heap[arg].mode = pre[arg].mode
            /\ Get(heap[arg].module).strictExportPresence
                   = Get(pre[arg].module).strictExportPresence
            /\ \A r \in Refs \ {arg} : heap[r] = pre[r]

\* The hook returned on a configuration that already had a rule other than
\* the static-asset rule.
C9_Witness ==
    /\ ret.kind = "return"
    /\ Len(RulesOf(pre[arg])) >= 1
    /\ RulesOf(pre[arg])[1] = CssRule

ImageExtensions ==
    { <<".","p","n","g">>, <<".","j","p","g">>, <<".","j","p","e","g">>,
      <<".","g","i","f">>, <<".","s","v","g">> }

Lowered(s) == [i \in 1..Len(s) |-> ToLower(s[i])]

EndsWith(s, suffix) ==
    /\ Len(s) >= Len(suffix)
    /\ SubSeq(s, Len(s) - Len(suffix) + 1, Len(s)) = suffix

\* C10: the rule's test matches a file name if and only if the name,
\* compared case-insensitively, ends with .png, .jpg, .jpeg, .gif or .svg.
C10_MatchesImageExtensions ==
    tested => (matched <=> \E ext \in ImageExtensions : EndsWith(Lowered(fileName), ext))

\* A mixed-case .jpeg name behind a dotted stem was tested and matched.
C10_Witness ==
    /\ tested /\ matched
    /\ fileName = <<"a", ".", ".", "J", "p", "E", "g">>

\* C11: an omitted width is forwarded as 800 and an omitted height as 600,
\* each independently of the other: only a width w gives (w, 600), only a
\* height h gives (800, h), both given are forwarded unchanged, and none
\* given gives (800, 600).
C11_IndependentDefaults ==
    IsSome(element) =>
        /\ Child.width = (IF Given.width = None THEN 800 ELSE Get(Given.width))
        /\ Child.height = (IF Given.height = None THEN 600 ELSE Get(Given.height))

\* An image rendered from a call that gave a width but no height.
C11_Witness ==
    /\ IsSome(element)
    /\ Given.width = Some(1000)
    /\ Given.height = None
    /\ Child.height = 600

\* Viewport widths, in pixels, in which the pages are looked at.
Viewports == {320, 800, 1920}

\* C12: whatever the props, the framework image is rendered with priority
\* loading, inside a container of width 100% and maxWidth 800px, so that no
\* image, one declared 1000 wide included, is laid out wider than 800px.
C12_PriorityAndCap ==
    IsSome(element) =>
        /\ Child.priority = TRUE
        /\ Get(element).type = "div"
        /\ Get(element).style = [width |-> "100%", maxWidth |-> "800px"]
        /\ \A vp \in Viewports : DisplayedWidth(Get(element), vp) <= 800

\* An image declared 1000 wide, as in the content documents, was rendered.
C12_Witness ==
    /\ IsSome(element)
    /\ Given.width = Some(1000)
    /\ Child.width = 1000
    /\ DisplayedWidth(Get(element), 1920) = 800

Copies(n, rule) == [i \in 1..n |-> rule]

\* C13: the hook is not idempotent: after n calls on one configuration
\* object its rule list is the original list followed by n copies of the
\* static-asset rule; no call removes or merges a rule added before, also
\* when the original list already held an equal rule.
C13_OneCopyPerCall ==
    \A r \in Refs :
        HasRules(initial[r]) =>
            /\ HasRules(heap[r])
            /\ RulesOf(heap[r]) = RulesOf(initial[r]) \o Copies(callsOn[r], AssetRule)
            /\ (callsOn[r] >= 1 => heap[r] # initial[r])

\* The hook ran twice on one object whose list already held an equal rule.
C13_Witness ==
    /\ callsOn[1] = 2
    /\ HasRules(initial[1])
    /\ RulesOf(initial[1]) = <<AssetRule>>
    /\ Len(RulesOf(heap[1])) = 3

\* The text sub occurs somewhere in the text s.
Contains(s, sub) ==
    \E i \in 1..(Len(s) - Len(sub) + 1) : SubSeq(s, i, i + Len(sub) - 1) = sub

RECURSIVE TrimLeft(_)
TrimLeft(s) ==
    IF Len(s) > 0 /\ SubSeq(s, 1, 1) = " " THEN TrimLeft(SubSeq(s, 2, Len(s))) ELSE s

\* The directives of a content security policy: its pieces between
\* semicolons, without leading blanks, empty pieces left out.
RECURSIVE DirectivesFrom(_, _, _)
DirectivesFrom(s, start, i) ==
    IF i > Len(s)
    THEN (IF start > Len(s) THEN {} ELSE {TrimLeft(SubSeq(s, start, Len(s)))})
    ELSE IF SubSeq(s, i, i) = ";"
         THEN (IF TrimLeft(SubSeq(s, start, i - 1)) = "" THEN {}
               ELSE {TrimLeft(SubSeq(s, start, i - 1))})
              \cup DirectivesFrom(s, i + 1, i + 1)
         ELSE DirectivesFrom(s, start, i + 1)

Directives(policy) == DirectivesFrom(policy, 1, 1)

\* C14: in the build configuration SVG handling is enabled only together
\* with its mitigations: when images.dangerouslyAllowSVG is true, the content
\* security policy contains "script-src 'none'" and "sandbox" (each as a
\* directive of its own), images.contentDispositionType is 'attachment' and
\* images.remotePatterns is empty.
C14_SvgOnlyWithMitigations ==
    IsSome(exported) =>
        LET images == Get(exported).images
            csp    == images.contentSecurityPolicy
        IN  images.dangerouslyAllowSVG = TRUE =>
                /\ Contains(csp, "script-src 'none'")
                /\ Contains(csp, "sandbox")
                /\ {"script-src 'none'", "sandbox"} \subseteq Directives(csp)
                /\ images.contentDispositionType = "attachment"
                /\ images.remotePatterns = <<>>

\* The configuration was exported with SVG handling enabled.
C14_Witness ==
    /\ IsSome(exported)
    /\ Get(exported).images.dangerouslyAllowSVG = TRUE
    /\ Cardinality(Directives(Get(exported).images.contentSecurityPolicy)) = 3

====
